---- MODULE Spec2Model ----
(***************************************************************************)
(* A model of the RudderStack analytics client: the caller-facing event    *)
(* model (src/src/message.rs), the two validators (RudderAnalytics::send   *)
(* and MessageKind::validate), the two normalizers (utils::parse_* used by *)
(* send, and From<&MessageKind> for RudderMessage) and the fire-and-forget *)
(* dispatch of RudderAnalytics::send (src/src/client.rs).                  *)
(*                                                                         *)
(* Option<T> is modelled as a sequence of length at most one: None is <<>> *)
(* and Some(x) is <<x>>.  Enum values are records whose field `kind` is    *)
(* the variant.  A DateTime<Utc> is a natural number.                      *)
(***************************************************************************)
EXTENDS Naturals, Sequences, FiniteSets, TLC

\* --------------------------------------------------------------------------
\* Bounds of the model
\* --------------------------------------------------------------------------

\* Largest number of messages in a Batch.
MaxBatch == 2

\* Largest reading of the wall clock (the clock starts at 1).
MaxClock == 2

\* Largest number of calls of send by one process.
MaxSends == 3

\* --------------------------------------------------------------------------
\* Option<T>
\* --------------------------------------------------------------------------

None == << >>

Some(x) == << x >>

Opt(S) == {None} \cup {Some(x) : x \in S}

is_none(o) == o = None

is_some(o) == o # None

unwrap_or(o, default) == IF o = None THEN default ELSE o[1]

\* --------------------------------------------------------------------------
\* Input domains
\* --------------------------------------------------------------------------

UserIds == {"u1"}

AnonymousIds == {"a1"}

EventNames == {"Signed Up"}

PageNames == {"Home"}

GroupIds == {"g1"}

PreviousIds == {"p1"}

\* traits / properties (opaque JSON)
Payloads == {"t1"}

\* context and integrations of a single event (opaque JSON)
Contexts == {"c1"}

Integrations == {"i1"}

\* context and integrations given at batch level; distinct from the values a
\* child can carry, so that which of the two reaches the output is visible
BatchContexts == {"c2"}

BatchIntegrations == {"i2"}

\* caller-supplied timestamps: an instant before every clock reading
Timestamps == {0}

\* --------------------------------------------------------------------------
\* The event model (message.rs)
\* --------------------------------------------------------------------------

Identify ==
    [kind : {"Identify"}, user_id : Opt(UserIds), anonymous_id : Opt(AnonymousIds),
     traits : Opt(Payloads), original_timestamp : Opt(Timestamps),
     context : Opt(Contexts), integrations : Opt(Integrations)]

Track ==
    [kind : {"Track"}, user_id : Opt(UserIds), anonymous_id : Opt(AnonymousIds),
     event : EventNames, properties : Opt(Payloads),
     original_timestamp : Opt(Timestamps),
     context : Opt(Contexts), integrations : Opt(Integrations)]

Page ==
    [kind : {"Page"}, user_id : Opt(UserIds), anonymous_id : Opt(AnonymousIds),
     name : PageNames, properties : Opt(Payloads),
     original_timestamp : Opt(Timestamps),
     context : Opt(Contexts), integrations : Opt(Integrations)]

Screen ==
    [kind : {"Screen"}, user_id : Opt(UserIds), anonymous_id : Opt(AnonymousIds),
     name : PageNames, properties : Opt(Payloads),
     original_timestamp : Opt(Timestamps),
     context : Opt(Contexts), integrations : Opt(Integrations)]

Group ==
    [kind : {"Group"}, user_id : Opt(UserIds), anonymous_id : Opt(AnonymousIds),
     group_id : GroupIds, traits : Opt(Payloads),
     original_timestamp : Opt(Timestamps),
     context : Opt(Contexts), integrations : Opt(Integrations)]

Alias ==
    [kind : {"Alias"}, user_id : UserIds, previous_id : PreviousIds,
     traits : Opt(Payloads), original_timestamp : Opt(Timestamps),
     context : Opt(Contexts), integrations : Opt(Integrations)]

\* The kinds whose user_id / anonymous_id are both optional.
IdentityKinds == {"Identify", "Track", "Page", "Screen", "Group"}

\* The optional fields of an event other than the identity pair.
OptionalFields(m) ==
    << m.original_timestamp, m.context, m.integrations,
       IF m.kind \in {"Track", "Page", "Screen"} THEN m.properties ELSE m.traits >>

\* An event with every optional field absent, or with every one present.
Bare(m) ==
    /\ \A i \in 1..4 : OptionalFields(m)[i] = None
    /\ m.kind \in IdentityKinds => m.user_id = None /\ m.anonymous_id = None

Full(m) ==
    /\ \A i \in 1..4 : OptionalFields(m)[i] # None
    /\ m.kind \in IdentityKinds => m.user_id # None /\ m.anonymous_id # None

\* The messages a Batch may hold: every variant of BatchMessage, bare and full.
BatchMessage ==
    {m \in Identify : Bare(m) \/ Full(m)} \cup {m \in Track : Bare(m) \/ Full(m)}
        \cup {m \in Page : Bare(m) \/ Full(m)} \cup {m \in Screen : Bare(m) \/ Full(m)}
        \cup {m \in Group : Bare(m) \/ Full(m)} \cup {m \in Alias : Bare(m) \/ Full(m)}

BatchMessageLists == UNION {[1..n -> BatchMessage] : n \in 0..MaxBatch}

Batch ==
    [kind : {"Batch"}, messages : BatchMessageLists, context : Opt(BatchContexts),
     integrations : Opt(BatchIntegrations), original_timestamp : Opt(Timestamps)]

MessageKind == Identify \cup Track \cup Page \cup Screen \cup Group \cup Alias \cup Batch

\* --------------------------------------------------------------------------
\* Results and errors (errors.rs)
\* --------------------------------------------------------------------------

AnalyticsError == {"MessageTooLarge", "InvalidRequest"}

Ok == "Ok"

Err(e) == e

\* --------------------------------------------------------------------------
\* trait Message and MessageKind::validate (message.rs)
\* --------------------------------------------------------------------------

get_original_timestamp(self) == self.original_timestamp

\* Identify, Track, Page and Screen return their own field; the impls for
\* Group, Alias and Batch return None.
get_user_id(self) ==
    IF self.kind \in {"Identify", "Track", "Page", "Screen"} THEN self.user_id ELSE None

get_anonymous_id(self) ==
    IF self.kind \in {"Identify", "Track", "Page", "Screen"} THEN self.anonymous_id ELSE None

\* A get_timings that drops the supplied timestamp.
get_timings_now_only(self, utc_now) == << utc_now, utc_now >>

\* Message::get_timings: one reading of the clock, utc_now.
get_timings(self, utc_now) ==
    LET sent_at == utc_now
        original_timestamp == unwrap_or(get_original_timestamp(self), sent_at)
    IN  << sent_at, original_timestamp >>

\* The provided method Message::validate.
default_validate(self) ==
    IF is_some(get_user_id(self)) \/ is_some(get_anonymous_id(self))
    THEN Ok
    ELSE Err("InvalidRequest")

\* A validate in which Alias does not override the provided method.
validate_alias_not_exempt(self) ==
    IF self.kind \in {"Group", "Batch"} THEN Ok ELSE default_validate(self)

\* <T as Message>::validate: Group, Alias and Batch override the provided
\* method with one that returns Ok(()).
validate(self) ==
    IF self.kind \in {"Group", "Alias", "Batch"} THEN Ok ELSE default_validate(self)

MessageKind_validate(self) ==
    CASE self.kind = "Identify" -> validate(self)
      [] self.kind = "Track" -> validate(self)
      [] self.kind = "Page" -> validate(self)
      [] self.kind = "Screen" -> validate(self)
      [] self.kind = "Group" -> validate(self)
      [] self.kind = "Alias" -> validate(self)
      [] self.kind = "Batch" -> validate(self)

\* --------------------------------------------------------------------------
\* From<&MessageKind> for RudderMessage (message.rs)
\* --------------------------------------------------------------------------

CHANNEL == "server"

\* The closure mapped over batch_message.messages.
From_batch_message(message, original_timestamp, sent_at, context) ==
    CASE message.kind = "Identify" ->
            [kind |-> "Identify", user_id |-> message.user_id,
             anonymous_id |-> message.anonymous_id, traits |-> message.traits,
             original_timestamp |-> original_timestamp, sent_at |-> sent_at,
             integrations |-> message.integrations, context |-> context,
             type |-> "identify", channel |-> CHANNEL]
      [] message.kind = "Track" ->
            [kind |-> "Track", user_id |-> message.user_id,
             anonymous_id |-> message.anonymous_id, event |-> message.event,
             properties |-> message.properties,
             original_timestamp |-> original_timestamp, sent_at |-> sent_at,
             integrations |-> message.integrations, context |-> context,
             type |-> "track", channel |-> CHANNEL]
      [] message.kind = "Page" ->
            [kind |-> "Page", user_id |-> message.user_id,
             anonymous_id |-> message.anonymous_id, name |-> message.name,
             properties |-> message.properties,
             original_timestamp |-> original_timestamp, sent_at |-> sent_at,
             integrations |-> message.integrations, context |-> context,
             type |-> "page", channel |-> CHANNEL]
      [] message.kind = "Screen" ->
            [kind |-> "Screen", user_id |-> message.user_id,
             anonymous_id |-> message.anonymous_id, name |-> message.name,
             properties |-> message.properties,
             original_timestamp |-> original_timestamp, sent_at |-> sent_at,
             integrations |-> message.integrations, context |-> context,
             type |-> "screen", channel |-> CHANNEL]
      [] message.kind = "Group" ->
            [kind |-> "Group", user_id |-> message.user_id,
             anonymous_id |-> message.anonymous_id, group_id |-> message.group_id,
             traits |-> message.traits,
             original_timestamp |-> original_timestamp, sent_at |-> sent_at,
             integrations |-> message.integrations, context |-> context,
             type |-> "group", channel |-> CHANNEL]
      [] message.kind = "Alias" ->
            [kind |-> "Alias", user_id |-> message.user_id,
             previous_id |-> message.previous_id, traits |-> message.traits,
             original_timestamp |-> original_timestamp, sent_at |-> sent_at,
             integrations |-> message.integrations, context |-> context,
             type |-> "alias", channel |-> CHANNEL]

\* RudderMessage::from(&message), the clock reading utc_now.
From(message, utc_now) ==
    LET timings == get_timings(message, utc_now)
        sent_at == timings[1]
        original_timestamp == timings[2]
    IN  IF message.kind = "Batch"
        THEN LET integrations == message.integrations
                 context == message.context
                 batch == [i \in 1..Len(message.messages) |->
                              From_batch_message(message.messages[i],
                                                 original_timestamp, sent_at, context)]
             IN  [kind |-> "Batch", batch |-> batch, integrations |-> integrations,
                  context |-> context, type |-> "batch",
                  original_timestamp |-> original_timestamp, sent_at |-> sent_at]
        ELSE \* a non-batch arm builds the record the closure builds, from the
             \* message's own context
             From_batch_message(message, original_timestamp, sent_at, message.context)

\* --------------------------------------------------------------------------
\* utils.rs: the normalizers RudderAnalytics::send calls.  Each reads the
\* clock once (utc_now); sent_at and original_timestamp are Options here.
\* --------------------------------------------------------------------------

parse_identify(message, utc_now) ==
    LET sent_at == utc_now
        original_timestamp == IF is_none(message.original_timestamp)
                              THEN Some(sent_at)
                              ELSE message.original_timestamp
    IN  [kind |-> "Identify", user_id |-> message.user_id, anonymous_id |-> message.anonymous_id,
         traits |-> message.traits,
         original_timestamp |-> original_timestamp, sent_at |-> Some(sent_at),
         integrations |-> message.integrations, context |-> message.context,
         type |-> "identify", channel |-> CHANNEL]

parse_track(message, utc_now) ==
    LET sent_at == utc_now
        original_timestamp == IF is_none(message.original_timestamp)
                              THEN Some(sent_at)
                              ELSE message.original_timestamp
    IN  [kind |-> "Track", user_id |-> message.user_id, anonymous_id |-> message.anonymous_id,
         event |-> message.event, properties |-> message.properties,
         original_timestamp |-> original_timestamp, sent_at |-> Some(sent_at),
         integrations |-> message.integrations, context |-> message.context,
         type |-> "track", channel |-> CHANNEL]

parse_page(message, utc_now) ==
    LET sent_at == utc_now
        original_timestamp == IF is_none(message.original_timestamp)
                              THEN Some(sent_at)
                              ELSE message.original_timestamp
    IN  [kind |-> "Page", user_id |-> message.user_id, anonymous_id |-> message.anonymous_id,
         name |-> message.name, properties |-> message.properties,
         original_timestamp |-> original_timestamp, sent_at |-> Some(sent_at),
         integrations |-> message.integrations, context |-> message.context,
         type |-> "page", channel |-> CHANNEL]

\* A parse_screen pasted from parse_page with the type literal left as it was.
parse_screen_as_page(message, utc_now) ==
    [parse_page(message, utc_now) EXCEPT !.kind = "Screen"]

parse_screen(message, utc_now) ==
    LET sent_at == utc_now
        original_timestamp == IF is_none(message.original_timestamp)
                              THEN Some(sent_at)
                              ELSE message.original_timestamp
    IN  [kind |-> "Screen", user_id |-> message.user_id, anonymous_id |-> message.anonymous_id,
         name |-> message.name, properties |-> message.properties,
         original_timestamp |-> original_timestamp, sent_at |-> Some(sent_at),
         integrations |-> message.integrations, context |-> message.context,
         type |-> "screen", channel |-> CHANNEL]

\* A parse_group that does not carry the group's traits over.
parse_group_without_traits(message, utc_now) ==
    LET sent_at == utc_now
        original_timestamp == IF is_none(message.original_timestamp)
                              THEN Some(sent_at)
                              ELSE message.original_timestamp
    IN  [kind |-> "Group", user_id |-> message.user_id, anonymous_id |-> message.anonymous_id,
         group_id |-> message.group_id, traits |-> None,
         original_timestamp |-> original_timestamp, sent_at |-> Some(sent_at),
         integrations |-> message.integrations, context |-> message.context,
         type |-> "group", channel |-> CHANNEL]

parse_group(message, utc_now) ==
    LET sent_at == utc_now
        original_timestamp == IF is_none(message.original_timestamp)
                              THEN Some(sent_at)
                              ELSE message.original_timestamp
    IN  [kind |-> "Group", user_id |-> message.user_id, anonymous_id |-> message.anonymous_id,
         group_id |-> message.group_id, traits |-> message.traits,
         original_timestamp |-> original_timestamp, sent_at |-> Some(sent_at),
         integrations |-> message.integrations, context |-> message.context,
         type |-> "group", channel |-> CHANNEL]

parse_alias(message, utc_now) ==
    LET sent_at == utc_now
        original_timestamp == IF is_none(message.original_timestamp)
                              THEN Some(sent_at)
                              ELSE message.original_timestamp
    IN  [kind |-> "Alias", user_id |-> message.user_id, previous_id |-> message.previous_id,
         traits |-> message.traits,
         original_timestamp |-> original_timestamp, sent_at |-> Some(sent_at),
         integrations |-> message.integrations, context |-> message.context,
         type |-> "alias", channel |-> CHANNEL]

\* A closure that keeps a child's own original_timestamp when it has one.
parse_batch_message_own_timestamp(message, original_timestamp, sent_at, context) ==
    LET own == CASE message.kind = "Identify" -> parse_identify(message, sent_at)
                 [] message.kind = "Track" -> parse_track(message, sent_at)
                 [] message.kind = "Page" -> parse_page(message, sent_at)
                 [] message.kind = "Screen" -> parse_screen(message, sent_at)
                 [] message.kind = "Group" -> parse_group(message, sent_at)
                 [] message.kind = "Alias" -> parse_alias(message, sent_at)
    IN  [own EXCEPT !.context = context,
                    !.original_timestamp = IF is_none(message.original_timestamp)
                                           THEN original_timestamp
                                           ELSE message.original_timestamp]

\* A closure that leaves a child its own context.
parse_batch_message_own_context(message, original_timestamp, sent_at, context) ==
    LET own == CASE message.kind = "Identify" -> parse_identify(message, sent_at)
                 [] message.kind = "Track" -> parse_track(message, sent_at)
                 [] message.kind = "Page" -> parse_page(message, sent_at)
                 [] message.kind = "Screen" -> parse_screen(message, sent_at)
                 [] message.kind = "Group" -> parse_group(message, sent_at)
                 [] message.kind = "Alias" -> parse_alias(message, sent_at)
    IN  [own EXCEPT !.original_timestamp = original_timestamp]

\* A closure that reads the clock again for each child, after the batch did.
parse_batch_message_rereads_clock(message, original_timestamp, sent_at, context) ==
    LET own == CASE message.kind = "Identify" -> parse_identify(message, sent_at + 1)
                 [] message.kind = "Track" -> parse_track(message, sent_at + 1)
                 [] message.kind = "Page" -> parse_page(message, sent_at + 1)
                 [] message.kind = "Screen" -> parse_screen(message, sent_at + 1)
                 [] message.kind = "Group" -> parse_group(message, sent_at + 1)
                 [] message.kind = "Alias" -> parse_alias(message, sent_at + 1)
    IN  [own EXCEPT !.context = context,
                    !.original_timestamp = original_timestamp]

\* The closure mapped over batch.messages in parse_batch.
parse_batch_message(message, original_timestamp, sent_at, context) ==
    CASE message.kind = "Identify" ->
            [kind |-> "Identify", user_id |-> message.user_id, anonymous_id |-> message.anonymous_id,
             traits |-> message.traits,
             original_timestamp |-> original_timestamp, sent_at |-> Some(sent_at),
             integrations |-> message.integrations, context |-> context,
             type |-> "identify", channel |-> CHANNEL]
      [] message.kind = "Track" ->
            [kind |-> "Track", user_id |-> message.user_id, anonymous_id |-> message.anonymous_id,
             event |-> message.event, properties |-> message.properties,
             original_timestamp |-> original_timestamp, sent_at |-> Some(sent_at),
             integrations |-> message.integrations, context |-> context,
             type |-> "track", channel |-> CHANNEL]
      [] message.kind = "Page" ->
            [kind |-> "Page", user_id |-> message.user_id, anonymous_id |-> message.anonymous_id,
             name |-> message.name, properties |-> message.properties,
             original_timestamp |-> original_timestamp, sent_at |-> Some(sent_at),
             integrations |-> message.integrations, context |-> context,
             type |-> "page", channel |-> CHANNEL]
      [] message.kind = "Screen" ->
            [kind |-> "Screen", user_id |-> message.user_id, anonymous_id |-> message.anonymous_id,
             name |-> message.name, properties |-> message.properties,
             original_timestamp |-> original_timestamp, sent_at |-> Some(sent_at),
             integrations |-> message.integrations, context |-> context,
             type |-> "screen", channel |-> CHANNEL]
      [] message.kind = "Group" ->
            [kind |-> "Group", user_id |-> message.user_id, anonymous_id |-> message.anonymous_id,
             group_id |-> message.group_id, traits |-> message.traits,
             original_timestamp |-> original_timestamp, sent_at |-> Some(sent_at),
             integrations |-> message.integrations, context |-> context,
             type |-> "group", channel |-> CHANNEL]
      [] message.kind = "Alias" ->
            [kind |-> "Alias", user_id |-> message.user_id, previous_id |-> message.previous_id,
             traits |-> message.traits,
             original_timestamp |-> original_timestamp, sent_at |-> Some(sent_at),
             integrations |-> message.integrations, context |-> context,
             type |-> "alias", channel |-> CHANNEL]

parse_batch(batch, utc_now) ==
    LET sent_at == utc_now
        original_timestamp == IF is_none(batch.original_timestamp)
                              THEN Some(sent_at)
                              ELSE batch.original_timestamp
        integrations == batch.integrations
        context == batch.context
        children == [i \in 1..Len(batch.messages) |->
                        parse_batch_message(batch.messages[i], original_timestamp,
                                            sent_at, context)]
    IN  [kind |-> "Batch", batch |-> children, integrations |-> integrations,
         context |-> context, type |-> "batch",
         original_timestamp |-> original_timestamp, sent_at |-> Some(sent_at)]

\* --------------------------------------------------------------------------
\* RudderAnalytics (client.rs)
\* --------------------------------------------------------------------------

HasIdentity(message) == is_some(message.user_id) \/ is_some(message.anonymous_id)

Paths ==
    [Identify |-> "/v1/identify", Track |-> "/v1/track", Page |-> "/v1/page",
     Screen |-> "/v1/screen", Group |-> "/v1/group", Alias |-> "/v1/alias",
     Batch |-> "/v1/batch"]

\* A first match whose Group arm has no identity check.
send_path_group_unchecked(message) ==
    IF message.kind \in IdentityKinds \ {"Group"} /\ ~HasIdentity(message)
    THEN Err("InvalidRequest")
    ELSE Paths[message.kind]

\* A first match that asks for both identifiers.
send_path_both_required(message) ==
    IF message.kind \in IdentityKinds
       /\ (is_none(message.user_id) \/ is_none(message.anonymous_id))
    THEN Err("InvalidRequest")
    ELSE Paths[message.kind]

\* A first match that applies the identity check to the children of a Batch.
send_path_checks_children(message) ==
    IF \/ message.kind \in IdentityKinds /\ ~HasIdentity(message)
       \/ /\ message.kind = "Batch"
          /\ \E i \in DOMAIN message.messages :
                /\ message.messages[i].kind \in IdentityKinds
                /\ ~HasIdentity(message.messages[i])
    THEN Err("InvalidRequest")
    ELSE Paths[message.kind]

\* A first match that refuses a batch of more than one message as too large.
send_path_size_checked(message) ==
    IF message.kind \in IdentityKinds /\ ~HasIdentity(message)
    THEN Err("InvalidRequest")
    ELSE IF message.kind = "Batch" /\ Len(message.messages) > 1
    THEN Err("MessageTooLarge")
    ELSE Paths[message.kind]

\* The first match of send: the API path of the event, or the early return
\* of Err(InvalidRequest).
\* A first match that rejects a Batch without messages.
send_path_empty_batch_rejected(message) ==
    IF message.kind = "Batch"
    THEN IF Len(message.messages) = 0 THEN Err("InvalidRequest") ELSE "/v1/batch"
    ELSE IF message.kind \in IdentityKinds /\ ~HasIdentity(message)
         THEN Err("InvalidRequest")
         ELSE Paths[message.kind]

send_path(message) ==
    CASE message.kind = "Identify" ->
            IF is_none(message.user_id) /\ is_none(message.anonymous_id)
            THEN Err("InvalidRequest") ELSE "/v1/identify"
      [] message.kind = "Track" ->
            IF is_none(message.user_id) /\ is_none(message.anonymous_id)
            THEN Err("InvalidRequest") ELSE "/v1/track"
      [] message.kind = "Page" ->
            IF is_none(message.user_id) /\ is_none(message.anonymous_id)
            THEN Err("InvalidRequest") ELSE "/v1/page"
      [] message.kind = "Screen" ->
            IF is_none(message.user_id) /\ is_none(message.anonymous_id)
            THEN Err("InvalidRequest") ELSE "/v1/screen"
      [] message.kind = "Group" ->
            IF is_none(message.user_id) /\ is_none(message.anonymous_id)
            THEN Err("InvalidRequest") ELSE "/v1/group"
      [] message.kind = "Alias" -> "/v1/alias"
      [] message.kind = "Batch" -> "/v1/batch"

\* The second match of send: the payload in rudder format.
send_rudder_message(message, utc_now) ==
    CASE message.kind = "Identify" -> parse_identify(message, utc_now)
      [] message.kind = "Track" -> parse_track(message, utc_now)
      [] message.kind = "Page" -> parse_page(message, utc_now)
      [] message.kind = "Screen" -> parse_screen(message, utc_now)
      [] message.kind = "Group" -> parse_group(message, utc_now)
      [] message.kind = "Alias" -> parse_alias(message, utc_now)
      [] message.kind = "Batch" -> parse_batch(message, utc_now)

\* A request whose credentials are swapped: empty username, write key as password.
send_request_swapped_auth(self, path, rudder_message) ==
    [method |-> "POST", url |-> self.data_plane_url \o path,
     basic_auth |-> << "", Some(self.write_key) >>, json |-> rudder_message]

\* self.client.post(url).basic_auth(write_key, Some("")).json(&rudder_message)
send_request(self, path, rudder_message) ==
    [method |-> "POST", url |-> self.data_plane_url \o path,
     basic_auth |-> << self.write_key, Some("") >>, json |-> rudder_message]

VARIABLES
    analytics,       \* the RudderAnalytics value: write_key and data_plane_url
    now,             \* the wall clock, what Utc::now() returns
    op,              \* the API called by the caller: none, validate, from or send
    message,         \* the event passed to that call
    result,          \* what the call returned (validate and send)
    rudder_message,  \* the canonical payload the call built
    clock_reads,     \* the readings of the clock the call made, in order
    threads,         \* the spawned threads: the request each owns, and its progress
    server,          \* the requests that reached the data plane, in order of arrival
    returned,        \* what every call of send returned so far, in order
    arrivals,        \* the threads whose request reached the data plane, in order
    alive,           \* the process is running
    serialized,      \* the RudderMessage handed to serde_json last
    wire,            \* the JSON text serde_json wrote for it
    decoded          \* what serde_json read back from it

vars == << analytics, now, op, message, result, rudder_message, clock_reads,
           threads, server, returned, arrivals, alive, serialized, wire, decoded >>

\* A load with its two arguments stored in each other's field.
load_swapped(write_key, data_plane_url) ==
    [write_key |-> data_plane_url, data_plane_url |-> write_key]

\* RudderAnalytics::load(write_key, data_plane_url)
load(write_key, data_plane_url) ==
    [write_key |-> write_key, data_plane_url |-> data_plane_url]

Init ==
    /\ analytics = load("write-key", "https://dp.example")
    /\ now = 1
    /\ op = "none"
    /\ message = None
    /\ result = None
    /\ rudder_message = None
    /\ clock_reads = << >>
    /\ threads = << >>
    /\ server = << >>
    /\ returned = << >>
    /\ arrivals = << >>
    /\ alive = TRUE
    /\ serialized = None
    /\ wire = None
    /\ decoded = None

\* Time passes.
Tick ==
    /\ now < MaxClock
    /\ now' = now + 1
    /\ UNCHANGED << analytics, op, message, result, rudder_message, clock_reads,
                    threads, server, returned, arrivals, alive, serialized, wire, decoded >>

\* The caller calls MessageKind::validate(&m).
Validate(m) ==
    /\ alive
    /\ op' = "validate"
    /\ message' = Some(m)
    /\ result' = Some(MessageKind_validate(m))
    /\ rudder_message' = None
    /\ clock_reads' = << >>
    /\ UNCHANGED << analytics, now, threads, server, returned, arrivals, alive,
                    serialized, wire, decoded >>

\* The caller calls RudderMessage::from(&m).
FromMessageKind(m) ==
    /\ alive
    /\ op' = "from"
    /\ message' = Some(m)
    /\ result' = None
    /\ rudder_message' = Some(From(m, now))
    /\ clock_reads' = << now >>
    /\ UNCHANGED << analytics, now, threads, server, returned, arrivals, alive,
                    serialized, wire, decoded >>

\* The caller calls analytics.send(&m): the early return of the first match,
\* or the payload, the request and the spawned thread, and Ok(()).
Send(m) ==
    LET path == send_path(m)
    IN  /\ alive
        /\ op' = "send"
        /\ message' = Some(m)
        /\ IF path \in AnalyticsError
           THEN /\ result' = Some(path)
                /\ rudder_message' = None
                /\ clock_reads' = << >>
                /\ UNCHANGED threads
           ELSE LET payload == send_rudder_message(m, now)
                    request == send_request(analytics, path, payload)
                IN  /\ rudder_message' = Some(payload)
                    /\ clock_reads' = << now >>
                    /\ threads' = Append(threads, [request |-> request,
                                                   status |-> "spawned",
                                                   attempts |-> 0])
                    /\ result' = Some(Ok)
        /\ returned' = Append(returned, result'[1])
        /\ UNCHANGED << analytics, now, server, arrivals, alive, serialized, wire, decoded >>

\* A thread that starts only when every thread spawned before it has ended.
ThreadSend_in_order(i) ==
    /\ alive
    /\ threads[i].status = "spawned"
    /\ \A j \in 1..(i - 1) : threads[j].status \in {"delivered", "failed"}
    /\ threads' = [threads EXCEPT ![i].status = "in flight",
                                  ![i].attempts = @ + 1]
    /\ UNCHANGED << analytics, now, op, message, result, rudder_message,
                    clock_reads, server, returned, arrivals, alive, serialized, wire, decoded >>

\* A spawned thread starts request.send(): one attempt.
ThreadSend(i) ==
    /\ alive
    /\ threads[i].status = "spawned"
    /\ threads' = [threads EXCEPT ![i].status = "in flight",
                                  ![i].attempts = @ + 1]
    /\ UNCHANGED << analytics, now, op, message, result, rudder_message,
                    clock_reads, server, returned, arrivals, alive, serialized, wire, decoded >>

\* The request reaches the data plane and request.send() returns; the thread
\* drops the result and ends.
ThreadDelivered(i) ==
    /\ alive
    /\ threads[i].status = "in flight"
    /\ server' = Append(server, threads[i].request)
    /\ arrivals' = Append(arrivals, i)
    /\ threads' = [threads EXCEPT ![i].status = "delivered"]
    /\ UNCHANGED << analytics, now, op, message, result, rudder_message,
                    clock_reads, returned, alive, serialized, wire, decoded >>

\* A thread that hands the failure of request.send() to the caller.
ThreadFailed_propagates(i) ==
    /\ alive
    /\ threads[i].status = "in flight"
    /\ threads' = [threads EXCEPT ![i].status = "failed"]
    /\ result' = Some(Err("MessageTooLarge"))
    /\ returned' = [returned EXCEPT ![Len(returned)] = Err("MessageTooLarge")]
    /\ UNCHANGED << analytics, now, op, message, rudder_message,
                    clock_reads, server, arrivals, alive, serialized, wire, decoded >>

\* A thread that tries again when request.send() fails.
ThreadFailed_retries(i) ==
    /\ alive
    /\ threads[i].status = "in flight"
    /\ threads' = [threads EXCEPT ![i].status = "spawned"]
    /\ UNCHANGED << analytics, now, op, message, result, rudder_message,
                    clock_reads, server, returned, arrivals, alive, serialized, wire, decoded >>

\* request.send() fails (no connection, timeout); the thread drops the error
\* and ends.
ThreadFailed(i) ==
    /\ alive
    /\ threads[i].status = "in flight"
    /\ threads' = [threads EXCEPT ![i].status = "failed"]
    /\ UNCHANGED << analytics, now, op, message, result, rudder_message,
                    clock_reads, server, returned, arrivals, alive, serialized, wire, decoded >>

\* A process that joins its threads before it ends.
Shutdown_joins ==
    /\ alive
    /\ \A i \in DOMAIN threads : threads[i].status \in {"delivered", "failed"}
    /\ alive' = FALSE
    /\ UNCHANGED << analytics, now, op, message, result, rudder_message,
                    clock_reads, threads, server, returned, arrivals, serialized, wire, decoded >>

\* The process ends.  The threads send spawned are detached (their JoinHandle
\* is dropped), so nothing waits for them: they end with the process, wherever
\* they are.
Shutdown ==
    /\ alive
    /\ alive' = FALSE
    /\ UNCHANGED << analytics, now, op, message, result, rudder_message,
                    clock_reads, threads, server, returned, arrivals, serialized, wire, decoded >>

\* One call of the API on any event, at any time, and the life of the thread
\* it spawns.
Next ==
    \/ Tick
    \/ op = "none" /\ \E m \in MessageKind : Validate(m)
    \/ op = "none" /\ \E m \in MessageKind : FromMessageKind(m)
    \/ op = "none" /\ \E m \in MessageKind : Send(m)
    \/ \E i \in DOMAIN threads : ThreadSend(i)
    \/ \E i \in DOMAIN threads : ThreadDelivered(i)
    \/ \E i \in DOMAIN threads : ThreadFailed(i)

Spec == Init /\ [][Next]_vars

\* The events a process sends when it sends several: one that send accepts,
\* one it rejects, and a batch.
DispatchEvents ==
    { [kind |-> "Track", user_id |-> Some("u1"), anonymous_id |-> None,
       event |-> "Signed Up", properties |-> None, original_timestamp |-> None,
       context |-> None, integrations |-> None],
      [kind |-> "Identify", user_id |-> None, anonymous_id |-> None,
       traits |-> None, original_timestamp |-> None,
       context |-> None, integrations |-> None],
      [kind |-> "Batch", messages |-> << >>, context |-> None,
       integrations |-> None, original_timestamp |-> None] }

\* A process that calls send up to MaxSends times, the threads of the calls
\* running beside it and beside each other, until the process ends.
NextDispatch ==
    \/ Tick
    \/ Len(returned) < MaxSends /\ \E m \in DispatchEvents : Send(m)
    \/ \E i \in DOMAIN threads : ThreadSend(i)
    \/ \E i \in DOMAIN threads : ThreadDelivered(i)
    \/ \E i \in DOMAIN threads : ThreadFailed(i)
    \/ Shutdown

SpecDispatch == Init /\ [][NextDispatch]_vars

\* --------------------------------------------------------------------------
\* src/src/rudder_message.rs: the wire form of RudderMessage, as the derived
\* Serialize and Deserialize write and read it.  A JSON object is a function
\* from its keys to JSON values.
\* --------------------------------------------------------------------------

JsonNull == [json |-> "null"]

JsonString(s) == [json |-> "string", value |-> s]

\* A DateTime<Utc> is written as a string in RFC 3339 form.
JsonDateTime(t) == [json |-> "string", rfc3339 |-> t]

\* An IValue is written as the JSON value it holds.
JsonIValue(v) == [json |-> "value", value |-> v]

\* The fields that every struct of the file declares, under their names of
\* #[serde(rename_all = "camelCase")].
CommonFields ==
    { [field |-> "original_timestamp", key |-> "originalTimestamp", ty |-> "DateTime<Utc>"],
      [field |-> "sent_at", key |-> "sentAt", ty |-> "DateTime<Utc>"],
      [field |-> "context", key |-> "context", ty |-> "Option<IValue>"],
      [field |-> "integrations", key |-> "integrations", ty |-> "Option<IValue>"],
      [field |-> "type", key |-> "type", ty |-> "String"],
      [field |-> "channel", key |-> "channel", ty |-> "String"] }

IdentityFields ==
    { [field |-> "user_id", key |-> "userId", ty |-> "Option<String>"],
      [field |-> "anonymous_id", key |-> "anonymousId", ty |-> "Option<String>"] }

\* The fields of the struct of each variant.
Fields(kind) ==
    CommonFields \cup
    CASE kind = "Identify" ->
            IdentityFields \cup
            { [field |-> "traits", key |-> "traits", ty |-> "Option<IValue>"] }
      [] kind = "Track" ->
            IdentityFields \cup
            { [field |-> "event", key |-> "event", ty |-> "String"],
              [field |-> "properties", key |-> "properties", ty |-> "Option<IValue>"] }
      [] kind \in {"Page", "Screen"} ->
            IdentityFields \cup
            { [field |-> "name", key |-> "name", ty |-> "String"],
              [field |-> "properties", key |-> "properties", ty |-> "Option<IValue>"] }
      [] kind = "Group" ->
            IdentityFields \cup
            { [field |-> "group_id", key |-> "groupId", ty |-> "String"],
              [field |-> "traits", key |-> "traits", ty |-> "Option<IValue>"] }
      [] kind = "Alias" ->
            { [field |-> "user_id", key |-> "userId", ty |-> "String"],
              [field |-> "previous_id", key |-> "previousId", ty |-> "String"],
              [field |-> "traits", key |-> "traits", ty |-> "Option<IValue>"] }

IsOption(ty) == ty \in {"Option<String>", "Option<IValue>"}

\* The variants of RudderMessage, in the order of their declaration.
Variants == << "Identify", "Track", "Page", "Screen", "Group", "Alias" >>

\* Serialize for one field's value.
serialize_field(ty, v) ==
    CASE ty = "String" -> JsonString(v)
      [] ty = "DateTime<Utc>" -> JsonDateTime(v)
      [] ty = "Option<String>" -> IF is_none(v) THEN JsonNull ELSE JsonString(v[1])
      [] ty = "Option<IValue>" -> IF is_none(v) THEN JsonNull ELSE JsonIValue(v[1])

\* serde_json::to_value(&self) for a RudderMessage: the enum is untagged, so
\* the object of the variant's struct.  #[serde_with::skip_serializing_none]
\* stands below #[derive(Serialize)] on every struct: whether the derive sees
\* the skip_serializing_if it adds depends on the order in which the compiler
\* expands the two, so skip_serializing_none is the build's choice.
serialize(self, skip_serializing_none) ==
    LET written == {f \in Fields(self.kind) :
                       ~(skip_serializing_none /\ IsOption(f.ty) /\ is_none(self[f.field]))}
    IN  [k \in {f.key : f \in written} |->
            LET f == CHOOSE g \in written : g.key = k
            IN  serialize_field(f.ty, self[f.field])]

\* Deserialize for one field accepts the JSON value: a missing key or null
\* only for an Option, a string for a String, an RFC 3339 string for a
\* DateTime<Utc>.
accepts_field(f, json) ==
    IF f.key \notin DOMAIN json
    THEN IsOption(f.ty)
    ELSE LET v == json[f.key]
         IN  CASE f.ty = "String" -> v.json = "string"
               [] f.ty = "DateTime<Utc>" -> v.json = "string" /\ "rfc3339" \in DOMAIN v
               [] f.ty = "Option<String>" -> v.json \in {"null", "string"}
               [] f.ty = "Option<IValue>" -> TRUE

deserialize_field(f, json) ==
    IF f.key \notin DOMAIN json
    THEN None
    ELSE LET v == json[f.key]
         IN  CASE f.ty = "String" -> IF "value" \in DOMAIN v THEN v.value ELSE v
               [] f.ty = "DateTime<Utc>" -> v.rfc3339
               [] IsOption(f.ty) ->
                     IF v.json = "null" THEN None
                     ELSE IF "value" \in DOMAIN v THEN Some(v.value) ELSE Some(v)

\* The derived Deserialize of the struct of a variant: every field of the
\* struct from its key, keys of no field ignored.
deserialize_struct(kind, json) ==
    [name \in {"kind"} \cup {f.field : f \in Fields(kind)} |->
        IF name = "kind" THEN kind
        ELSE deserialize_field(CHOOSE f \in Fields(kind) : f.field = name, json)]

\* serde_json::from_value::<RudderMessage>(json): #[serde(untagged)] tries the
\* variants in the order of their declaration and returns the first whose
\* struct accepts the object.
deserialize(json) ==
    LET accepting == {i \in DOMAIN Variants :
                         \A f \in Fields(Variants[i]) : accepts_field(f, json)}
    IN  IF accepting = {}
        THEN [Err |-> "data did not match any variant of untagged enum RudderMessage"]
        ELSE LET first == CHOOSE i \in accepting : \A j \in accepting : i <= j
             IN  [Ok |-> deserialize_struct(Variants[first], json)]

\* The values of the six struct types in a payload: the payload itself, or
\* the children of a batch.
Structs(payload) ==
    IF payload.kind = "Batch"
    THEN {payload.batch[i] : i \in DOMAIN payload.batch}
    ELSE {payload}

\* serde_json writes one canonical event that RudderMessage::from built.
Serialize ==
    /\ alive
    /\ op = "from"
    /\ is_none(wire)
    /\ \E value \in Structs(rudder_message[1]), skip_serializing_none \in BOOLEAN :
          /\ serialized' = Some(value)
          /\ wire' = Some(serialize(value, skip_serializing_none))
    /\ UNCHANGED << analytics, now, op, message, result, rudder_message, clock_reads,
                    threads, server, returned, arrivals, alive, decoded >>

\* serde_json reads it back.
Deserialize ==
    /\ alive
    /\ is_some(wire)
    /\ is_none(decoded)
    /\ decoded' = Some(deserialize(wire[1]))
    /\ UNCHANGED << analytics, now, op, message, result, rudder_message, clock_reads,
                    threads, server, returned, arrivals, alive, serialized, wire >>

\* A canonical event is built, written and read back.
NextWire ==
    \/ Tick
    \/ op = "none" /\ \E m \in MessageKind : FromMessageKind(m)
    \/ Serialize
    \/ Deserialize

SpecWire == Init /\ [][NextWire]_vars

\* --------------------------------------------------------------------------
\* Properties
\* --------------------------------------------------------------------------

\* The event and the payload of the call made.
Msg == message[1]

Payload == rudder_message[1]

MissingIdentity(m) == m.kind \in IdentityKinds /\ is_none(m.user_id) /\ is_none(m.anonymous_id)

TypeOf ==
    [Identify |-> "identify", Track |-> "track", Page |-> "page", Screen |-> "screen",
     Group |-> "group", Alias |-> "alias", Batch |-> "batch"]

\* C1: send of an Identify, Track, Page, Screen or Group with neither user_id
\* nor anonymous_id returns InvalidRequest and does nothing else: the clock is
\* not read, no payload is built, no thread is spawned and no request ever
\* reaches the data plane.
C1_RejectedSendShortCircuits ==
    (op = "send" /\ MissingIdentity(Msg)) =>
        /\ result = Some(Err("InvalidRequest"))
        /\ rudder_message = None
        /\ clock_reads = << >>
        /\ threads = << >>
        /\ server = << >>

C1_Witness ==
    /\ op = "send"
    /\ Msg.kind = "Group"
    /\ MissingIdentity(Msg)
    /\ result = Some(Err("InvalidRequest"))
    /\ now > 1

\* C2: an Identify, Track, Page, Screen or Group with at least one of user_id
\* and anonymous_id passes both validators, whatever its other fields:
\* MessageKind::validate returns Ok and send returns Ok.
C2_IdentifiedEventAccepted ==
    (op \in {"validate", "send"} /\ Msg.kind \in IdentityKinds /\ HasIdentity(Msg)) =>
        result = Some(Ok)

C2_Witness ==
    /\ op = "send"
    /\ Msg.kind = "Group"
    /\ is_some(Msg.user_id)
    /\ is_none(Msg.anonymous_id)
    /\ result = Some(Ok)

\* C3: MessageKind::validate fails with InvalidRequest on every Identify,
\* Track, Page, Screen or Group that has neither user_id nor anonymous_id.
C3_ValidateRejectsMissingIdentity ==
    (op = "validate" /\ MissingIdentity(Msg)) => result = Some(Err("InvalidRequest"))

\* C4: every Alias passes both validators: MessageKind::validate returns Ok
\* and send returns Ok.
C4_AliasAccepted ==
    (op \in {"validate", "send"} /\ Msg.kind = "Alias") => result = Some(Ok)

C4_Witness ==
    /\ op = "validate"
    /\ Msg.kind = "Alias"
    /\ result = Some(Ok)

\* C5: every Batch passes both validators, and send does not check the
\* identity of its children: the batch is sent, and a child without user_id
\* and anonymous_id is in the payload of the request, still without them.
C5_BatchAcceptedChildrenUnchecked ==
    (op \in {"validate", "send"} /\ Msg.kind = "Batch") =>
        /\ result = Some(Ok)
        /\ op = "send" =>
              /\ Len(threads) = 1
              /\ threads[1].request.json = Payload
              /\ Len(Payload.batch) = Len(Msg.messages)
              /\ \A i \in DOMAIN Msg.messages :
                    MissingIdentity(Msg.messages[i]) =>
                        /\ Payload.batch[i].kind = Msg.messages[i].kind
                        /\ is_none(Payload.batch[i].user_id)
                        /\ is_none(Payload.batch[i].anonymous_id)

C5_Witness ==
    /\ op = "send"
    /\ Msg.kind = "Batch"
    /\ \E i \in DOMAIN Msg.messages : MissingIdentity(Msg.messages[i])
    /\ result = Some(Ok)
    /\ Len(server) = 1
    /\ \E i \in DOMAIN server[1].json.batch :
          /\ server[1].json.batch[i].kind = "Track"
          /\ is_none(server[1].json.batch[i].user_id)
          /\ is_none(server[1].json.batch[i].anonymous_id)

\* C6: for an event that is not a Batch, the payload's sent_at is the one
\* clock reading of the normalization, and its original_timestamp is the
\* supplied one when there is one, and the payload's sent_at otherwise.
\* (From builds plain instants, utils::parse_* build Options.)
C6_TimestampsResolved ==
    (op \in {"from", "send"} /\ is_some(rudder_message) /\ Msg.kind # "Batch") =>
        /\ Len(clock_reads) = 1
        /\ IF op = "from"
           THEN /\ Payload.sent_at = clock_reads[1]
                /\ Payload.original_timestamp =
                      IF is_some(Msg.original_timestamp)
                      THEN Msg.original_timestamp[1]
                      ELSE Payload.sent_at
           ELSE /\ Payload.sent_at = Some(clock_reads[1])
                /\ Payload.original_timestamp =
                      IF is_some(Msg.original_timestamp)
                      THEN Msg.original_timestamp
                      ELSE Payload.sent_at

C6_Witness ==
    /\ op = "from"
    /\ Msg.kind = "Track"
    /\ is_some(Msg.original_timestamp)
    /\ clock_reads = << 2 >>
    /\ Payload.sent_at = 2
    /\ Payload.original_timestamp = 0

\* C7: the payload of a Batch of N messages has N children, of the kinds of
\* the messages and in their order; the wrapper and every child carry the
\* same sent_at, the one clock reading, and the same original_timestamp, the
\* batch's own or else sent_at, whatever original_timestamp a child has.
C7_BatchFlattened ==
    (op \in {"from", "send"} /\ is_some(rudder_message) /\ Msg.kind = "Batch") =>
        /\ Payload.kind = "Batch"
        /\ Len(clock_reads) = 1
        /\ Payload.sent_at = IF op = "from" THEN clock_reads[1] ELSE Some(clock_reads[1])
        /\ Payload.original_timestamp =
              IF is_none(Msg.original_timestamp) THEN Payload.sent_at
              ELSE IF op = "from" THEN Msg.original_timestamp[1]
              ELSE Msg.original_timestamp
        /\ Len(Payload.batch) = Len(Msg.messages)
        /\ \A i \in DOMAIN Msg.messages :
              /\ Payload.batch[i].kind = Msg.messages[i].kind
              /\ Payload.batch[i].user_id = Msg.messages[i].user_id
              /\ Payload.batch[i].sent_at = Payload.sent_at
              /\ Payload.batch[i].original_timestamp = Payload.original_timestamp

C7_Witness ==
    /\ op = "send"
    /\ Msg.kind = "Batch"
    /\ is_none(Msg.original_timestamp)
    /\ Len(Msg.messages) = 2
    /\ Msg.messages[1].kind = "Track"
    /\ Msg.messages[2].kind = "Page"
    /\ is_some(Msg.messages[1].original_timestamp)
    /\ is_none(Msg.messages[2].original_timestamp)
    /\ Payload.batch[1].kind = "Track"
    /\ Payload.batch[2].kind = "Page"
    /\ Payload.batch[1].original_timestamp = Some(2)
    /\ Payload.batch[2].sent_at = Some(2)

C9_TypeAndChannel ==
    (op \in {"from", "send"} /\ is_some(rudder_message)) =>
        /\ Payload.kind = Msg.kind
        /\ Payload.type = TypeOf[Msg.kind]
        /\ IF Msg.kind # "Batch"
           THEN Payload.channel = "server"
           ELSE \A i \in DOMAIN Payload.batch :
                   /\ Payload.batch[i].type = TypeOf[Msg.messages[i].kind]
                   /\ Payload.batch[i].channel = "server"

C9_Witness ==
    /\ op = "send"
    /\ Msg.kind = "Screen"
    /\ result = Some(Ok)
    /\ Payload.type = "screen"
    /\ Payload.channel = "server"
    /\ is_some(Msg.context)

\* C10: the request of an accepted send is a POST to data_plane_url followed
\* by the path of the event's kind, with Basic credentials of the write key
\* and an empty password; its body is the payload, and its path is /v1/
\* followed by the payload's type.  The same holds of what the data plane gets.
C10_Request ==
    (op = "send" /\ result = Some(Ok)) =>
        /\ Len(threads) = 1
        /\ LET request == threads[1].request
           IN  /\ request.method = "POST"
               /\ request.url = analytics.data_plane_url \o Paths[Msg.kind]
               /\ request.basic_auth = << analytics.write_key, Some("") >>
               /\ request.json = Payload
               /\ request.url = analytics.data_plane_url \o "/v1/" \o request.json.type
               /\ \A i \in DOMAIN server : server[i] = request

C10_Witness ==
    /\ op = "send"
    /\ Msg.kind = "Alias"
    /\ Len(server) = 1
    /\ server[1].url = "https://dp.example/v1/alias"
    /\ server[1].basic_auth = << "write-key", Some("") >>
    /\ server[1].json.type = "alias"

\* The number of calls of send that returned Ok(()).
CountOk == Cardinality({k \in DOMAIN returned : returned[k] = Ok})

\* The number of times request.send() was started, over the first n threads.
RECURSIVE Attempts(_)
Attempts(n) == IF n = 0 THEN 0 ELSE threads[n].attempts + Attempts(n - 1)

Ended(i) == threads[i].status \in {"delivered", "failed"}

\* C11: send returns Ok(()) when it has spawned the thread, before the thread
\* has started the request, and what send returned is decided by the identity
\* check alone; whatever a thread does afterwards (start, deliver, fail), no
\* result of send changes.
C11_SendReturnsBeforeDelivery ==
    [][ /\ \A k \in DOMAIN returned :
              k \in DOMAIN returned' /\ returned'[k] = returned[k]
        /\ Len(returned') = Len(returned) => result' = result
        /\ Len(returned') > Len(returned) =>
              /\ result' = Some(returned'[Len(returned')])
              /\ result' = Some(Ok) <=> ~MissingIdentity(message'[1])
              /\ result' = Some(Ok) =>
                    /\ Len(threads') = Len(threads) + 1
                    /\ threads'[Len(threads')].status = "spawned"
                    /\ threads'[Len(threads')].attempts = 0
                    /\ \A i \in DOMAIN threads : threads'[i] = threads[i]
                    /\ server' = server
      ]_vars

C11_Witness ==
    /\ returned = << Ok, Ok, Ok >>
    /\ result = Some(Ok)
    /\ threads[1].status = "failed"
    /\ threads[2].status = "in flight"
    /\ threads[3].status = "spawned"
    /\ server = << >>

\* C12: send returns Ok(()) or Err(InvalidRequest) and nothing else, for every
\* event and batch of every size and whatever becomes of the request: never
\* MessageTooLarge, never the failure of the transport.
C12_OnlyInvalidRequest ==
    /\ \A k \in DOMAIN returned : returned[k] \in {Ok, Err("InvalidRequest")}
    /\ op = "send" =>
          /\ result \in {Some(Ok), Some(Err("InvalidRequest"))}
          /\ returned = << result[1] >>
          /\ result = Some(Err("InvalidRequest")) <=> MissingIdentity(Msg)

C12_Witness ==
    /\ op = "send"
    /\ Msg.kind = "Batch"
    /\ Len(Msg.messages) = MaxBatch
    /\ result = Some(Ok)
    /\ threads[1].status = "failed"

\* C15: every send that returned Ok(()) spawned one thread, and no other call
\* did; a thread starts request.send() at most once, exactly once when it has
\* started, and never again when it has ended; so when every thread has
\* ended, as many requests were attempted as sends returned Ok(()).
C15_OneThreadOneAttempt ==
    /\ Len(threads) = CountOk
    /\ \A i \in DOMAIN threads :
          /\ threads[i].attempts = IF threads[i].status = "spawned" THEN 0 ELSE 1
          /\ Cardinality({k \in DOMAIN arrivals : arrivals[k] = i}) =
                IF threads[i].status = "delivered" THEN 1 ELSE 0
    /\ Len(server) = Len(arrivals)
    /\ Attempts(Len(threads)) <= CountOk
    /\ (\A i \in DOMAIN threads : Ended(i)) => Attempts(Len(threads)) = CountOk

C15_Witness ==
    /\ returned = << Ok, Err("InvalidRequest"), Ok >>
    /\ Len(threads) = 2
    /\ threads[1].status = "failed"
    /\ threads[2].status = "delivered"
    /\ Attempts(2) = 2
    /\ arrivals = << 2 >>

\* C16: nothing orders the requests of two sends: a thread that was spawned
\* can start, and a request in flight can arrive, whatever the threads of
\* earlier and later sends are doing; so the request of a later send can
\* arrive first.
C16_NoDeliveryOrder ==
    alive =>
        \A i \in DOMAIN threads :
            /\ threads[i].status = "spawned" => ENABLED ThreadSend(i)
            /\ threads[i].status = "in flight" => ENABLED ThreadDelivered(i)

C16_Witness ==
    /\ Len(returned) = 2
    /\ returned = << Ok, Ok >>
    /\ arrivals = << 2, 1 >>
    /\ server[1] = threads[2].request
    /\ server[2] = threads[1].request

\* C17: write_key and data_plane_url stay what load was given, through every
\* send, accepted or rejected, and every step of every thread; the client has
\* no other field, so keeps no event and no payload; every request carries
\* the client's URL and write key; and the event passed to send is the
\* caller's, unchanged.
C17_ClientFixed ==
    /\ analytics.write_key = "write-key"
    /\ analytics.data_plane_url = "https://dp.example"
    /\ DOMAIN analytics = {"write_key", "data_plane_url"}
    /\ \A i \in DOMAIN threads :
          /\ threads[i].request.basic_auth = << "write-key", Some("") >>
          /\ \E k \in DOMAIN Paths :
                threads[i].request.url = "https://dp.example" \o Paths[k]
    /\ op = "send" => Msg \in DispatchEvents

C17_Witness ==
    /\ returned = << Ok, Err("InvalidRequest"), Ok >>
    /\ threads[1].status = "delivered"
    /\ threads[2].status = "failed"
    /\ analytics = [write_key |-> "write-key", data_plane_url |-> "https://dp.example"]

\* C18: a normalization reads the clock once, whatever the kind of the event
\* and however many messages a Batch holds, and every sent_at and every
\* defaulted original_timestamp of the payload, of the wrapper and of each
\* child, is that reading; a call that does not normalize does not read it.
C18_OneClockRead ==
    IF op \in {"from", "send"} /\ is_some(rudder_message)
    THEN /\ Len(clock_reads) = 1
         /\ LET reading == IF op = "from" THEN clock_reads[1] ELSE Some(clock_reads[1])
            IN  /\ Payload.sent_at = reading
                /\ is_none(Msg.original_timestamp) => Payload.original_timestamp = reading
                /\ Msg.kind = "Batch" =>
                      \A i \in DOMAIN Payload.batch :
                          /\ Payload.batch[i].sent_at = reading
                          /\ is_none(Msg.original_timestamp) =>
                                Payload.batch[i].original_timestamp = reading
    ELSE clock_reads = << >>

C18_Witness ==
    /\ op = "send"
    /\ Msg.kind = "Batch"
    /\ Len(Msg.messages) = MaxBatch
    /\ is_none(Msg.original_timestamp)
    /\ clock_reads = << 2 >>
    /\ \A i \in DOMAIN Payload.batch : Payload.batch[i].sent_at = Some(2)

\* C19: nothing drains the threads: the process can end at any time, whatever
\* the threads are doing, and when it has ended no thread takes another
\* step; so a request whose send returned Ok(()) may never be completed.
C19_NoDrain ==
    /\ alive => ENABLED Shutdown
    /\ ~alive =>
          \A i \in DOMAIN threads :
              /\ ~ENABLED ThreadSend(i)
              /\ ~ENABLED ThreadDelivered(i)
              /\ ~ENABLED ThreadFailed(i)

C19_Witness ==
    /\ ~alive
    /\ returned = << Ok >>
    /\ threads[1].status = "in flight"
    /\ server = << >>

\* C20: send rejects an event with InvalidRequest exactly when
\* MessageKind::validate returns Err(InvalidRequest) for it.
C20_ValidatorsAgree ==
    op = "send" =>
        (result = Some(Err("InvalidRequest"))
            <=> MessageKind_validate(Msg) = Err("InvalidRequest"))

\* C13: the JSON object of a canonical event has the key of an optional field
\* exactly when the field is Some, and no value of it is null.
C13_AbsentOptionalsOmitted ==
    is_some(wire) =>
        /\ \A f \in Fields(serialized[1].kind) :
              IsOption(f.ty) =>
                  (f.key \in DOMAIN wire[1] <=> is_some(serialized[1][f.field]))
        /\ \A k \in DOMAIN wire[1] : wire[1][k] # JsonNull

\* C14: what is read back from the JSON object of a canonical event is the
\* event that was written: the same variant, the same fields.
C14_RoundTrip ==
    is_some(decoded) => decoded[1] = [Ok |-> serialized[1]]

\* C21: both normalizers carry a non-batch event over as it is: the payload
\* is of the event's variant, has every field of the event with the event's
\* value, Some staying Some and None staying None, a supplied
\* original_timestamp included, and has besides them only type, channel and
\* sent_at.
C21_PayloadPreserved ==
    (op \in {"from", "send"} /\ is_some(rudder_message) /\ Msg.kind # "Batch") =>
        /\ Payload.kind = Msg.kind
        /\ DOMAIN Payload = DOMAIN Msg \cup {"type", "channel", "sent_at"}
        /\ \A field \in DOMAIN Msg \ {"original_timestamp"} :
              Payload[field] = Msg[field]
        /\ is_some(Msg.original_timestamp) =>
              Payload.original_timestamp =
                  IF op = "from" THEN Msg.original_timestamp[1]
                  ELSE Msg.original_timestamp

C21_Witness ==
    /\ op = "send"
    /\ result = Some(Ok)
    /\ Msg.kind = "Group"
    /\ Msg.user_id = None
    /\ Msg.anonymous_id = Some("a1")
    /\ Msg.traits = Some("t1")
    /\ Msg.context = None
    /\ Msg.integrations = Some("i1")
    /\ Payload.traits = Some("t1")
    /\ Payload.context = None
    /\ Payload.integrations = Some("i1")
    /\ Payload.anonymous_id = Some("a1")
    /\ Payload.group_id = "g1"

\* C22: a Batch without messages is accepted.  send returns Ok(()) for it and
\* spawns one thread, whose request is a POST to /v1/batch of a wrapper with
\* no children, of type batch, its sent_at the reading of the clock and its
\* original_timestamp the batch's or, without one, that reading; the request
\* is attempted at most once and reaches the server at most once.
\* RudderMessage::from builds the wrapper likewise.
C22_EmptyBatchAccepted ==
    (op \in {"from", "send"} /\ Msg.kind = "Batch" /\ Len(Msg.messages) = 0) =>
        /\ is_some(rudder_message)
        /\ Payload.kind = "Batch"
        /\ Payload.batch = << >>
        /\ Payload.type = "batch"
        /\ Payload.context = Msg.context
        /\ Payload.integrations = Msg.integrations
        /\ op = "from" =>
              /\ Payload.sent_at = clock_reads[1]
              /\ Payload.original_timestamp =
                    unwrap_or(Msg.original_timestamp, clock_reads[1])
        /\ op = "send" =>
              /\ result = Some(Ok)
              /\ returned = << Ok >>
              /\ Payload.sent_at = Some(clock_reads[1])
              /\ Payload.original_timestamp =
                    IF is_none(Msg.original_timestamp) THEN Some(clock_reads[1])
                    ELSE Msg.original_timestamp
              /\ Len(threads) = 1
              /\ threads[1].request.method = "POST"
              /\ threads[1].request.url = "https://dp.example/v1/batch"
              /\ threads[1].request.json = Payload
              /\ threads[1].attempts = IF threads[1].status = "spawned" THEN 0 ELSE 1
              /\ server = IF threads[1].status = "delivered"
                          THEN << threads[1].request >> ELSE << >>

C22_Witness ==
    /\ op = "send"
    /\ Msg.kind = "Batch"
    /\ Msg.messages = << >>
    /\ result = Some(Ok)
    /\ Payload.batch = << >>
    /\ threads[1].status = "delivered"
    /\ threads[1].attempts = 1
    /\ Len(server) = 1
    /\ server[1].url = "https://dp.example/v1/batch"
    /\ server[1].json.batch = << >>

====
